---- MODULE Spec2Model ----
(***************************************************************************)
(* Model of scripts/run-evals.ts: the eval runner of opinionated-next.     *)
(*                                                                         *)
(* main() runs a list of evaluations one after the other, each with        *)
(* runEval (first-shot) or runEvalFull (--full: retry loop with d3k        *)
(* feedback).  A run stashes the working tree, stages the eval's files,    *)
(* calls the coding agent, runs the build / lint / test gates and restores *)
(* the tree in a finally block.                                            *)
(*                                                                         *)
(* Texts (gate output, log excerpts) are modelled by their origin: the     *)
(* gate and the attempt that produced them.  Exit codes are 0 or 1.        *)
(***************************************************************************)
EXTENDS Integers, Sequences, FiniteSets, TLC

VARIABLES
    fullMode,        \* main: args.includes("--full")
    runAll,          \* main: args.includes("--all")
    gitFlaky,        \* environment: git commands may fail whatever the tree
    evalFs,          \* .evals-cache: eval name -> [prompt, tests, stubs]
    evalsToRun,      \* main: the names to run, in order
    idx,             \* main: position of the for loop in evalsToRun
    results,         \* main: EvalResult[] pushed so far
    mainPc,          \* main: "loop" | "done" | "rejected"
    outputFile,      \* main: outputFile is not null (set when main ends)
    jsonFile,        \* the file at outputFile: NoFile or the array written
    exitCode,        \* exit code of the process (-1 while it runs)
    pc,              \* position inside runEval / runEvalFull ("idle" outside)
    result,          \* the run's EvalResult
    testFiles,       \* the run's getEvalTestFiles(evalName)
    attempt,         \* runEvalFull: loop variable of the retry loop
    feedbackContext, \* runEvalFull: feedback for the next prompt
    browserErrors,   \* runEvalFull: getD3kErrors() of the current attempt
    agentExit,       \* exit code of the last claude invocation (-1: none yet)
    polls,           \* startD3k: local counter "attempts" (0 outside startD3k)
    d3kProcess,      \* module-level handle: 0 is null, else the pid
    alive,           \* pids of monitor processes that are running
    d3kLogs,         \* ~/.d3k/logs: "none" | "clean" | "error"
    tree,            \* working tree: path -> content
    stash,           \* git stash stack, top first
    tree0,           \* history: the working tree when the run started
    stash0,          \* history: the stash stack when the run started
    payloads,        \* history: feedback put into each agent prompt of the run
    docPc,           \* update-docs: the statement of downloadAndExtractDocs
                     \* to run next ("off": the script is not run, "exit")
    tempDir,         \* update-docs: .claude/docs/.tmp, [files, docs]
    outputDir,       \* update-docs: .claude/docs/nextjs, [docs, stamp]
    remote,          \* update-docs: what the tarball holds once fetched
    entries,         \* update-docs: readdir's entries not yet moved
    docExit,         \* update-docs: exit code of the process (-1: running)
    output0,         \* history: outputDir when the script started
    docTrace,        \* history: the statements of the script that succeeded
    trace            \* history: operations of the run, [op, k, code]; code is
                     \* the exit code of a gate; for "agent" whether the
                     \* monitor's log matched an error pattern in that attempt;
                     \* for "rmLogs" whether there were logs to delete; for
                     \* "startD3k" / "stopD3k" the pid spawned / killed

vars == <<fullMode, runAll, gitFlaky, evalFs, evalsToRun, idx, results, mainPc,
          outputFile, jsonFile, exitCode, pc,
          result, testFiles, attempt, feedbackContext, browserErrors,
          agentExit, polls, d3kProcess, alive, d3kLogs, tree, stash, tree0,
          stash0, payloads, trace, docPc, tempDir, outputDir, remote, entries,
          docExit, output0, docTrace>>

----------------------------------------------------------------------------
(* Program constants and bounds *)

MAX_FULL_ATTEMPTS == 3

\* startD3k: while (attempts < 30)
D3K_MAX_POLLS == 30

\* the number of evals listEvals() finds when --all is given
MaxEvals == 2

\* the number of stash entries the user already has before the script runs
MaxStash == 1

\* the docs directory of a tarball holds at most this many entries
MaxDocs == 2

----------------------------------------------------------------------------
(* The evals cache *)

\* prompt: prompt.md exists and is readable; tests: input/ holds *.test.*
\* files; stubs: relative paths of the other *.ts / *.tsx files of input/.
EvalKinds ==
    { [prompt |-> TRUE,  tests |-> TRUE,  stubs |-> {"app", "stub"}],
      [prompt |-> TRUE,  tests |-> FALSE, stubs |-> {}],
      [prompt |-> FALSE, tests |-> FALSE, stubs |-> {}] }

getEvalTestFiles(kind) == IF kind.tests THEN {"test"} ELSE {}

----------------------------------------------------------------------------
(* The git working tree *)

Paths == {"app", "pkg", "test", "stub", "gen"}
Tracked == {"app", "pkg"}

CleanTree == [p \in Paths |-> IF p \in Tracked THEN "head" ELSE "absent"]

\* git stash --include-untracked: saves nothing when there is nothing to save
GitStash(t, s) ==
    IF t = CleanTree
    THEN [tree |-> t, stash |-> s]
    ELSE [tree |-> CleanTree, stash |-> <<t>> \o s]

\* git checkout -- .
GitCheckout(t) == [p \in Paths |-> IF p \in Tracked THEN "head" ELSE t[p]]

\* git clean -fd
GitClean(t) == [p \in Paths |-> IF p \in Tracked THEN t[p] ELSE "absent"]

\* git stash pop: applies the top entry, whoever pushed it; fails (and keeps
\* the entry) on an empty stack or when the entry touches a dirty path
GitStashPop(t, s) ==
    IF s = <<>>
    THEN [tree |-> t, stash |-> s]
    ELSE LET e == Head(s)
             touched == {p \in Paths : e[p] # CleanTree[p]}
         IN  IF \E p \in touched : t[p] # CleanTree[p]
             THEN [tree |-> t, stash |-> s]
             ELSE [tree |-> [p \in Paths |-> IF p \in touched THEN e[p] ELSE t[p]],
                   stash |-> Tail(s)]

\* mutant of StageFiles: the existsSync test of the stub loop left out
StageFilesOverwriting(t, kind) ==
    [p \in Paths |->
        IF p \in getEvalTestFiles(kind) THEN "eval"
        ELSE IF p \in kind.stubs THEN "eval"
        ELSE t[p]]

\* cpSync of the test files (always) and of the stub files (if absent)
StageFiles(t, kind) ==
    [p \in Paths |->
        IF p \in getEvalTestFiles(kind) THEN "eval"
        ELSE IF p \in kind.stubs /\ t[p] = "absent" THEN "eval"
        ELSE t[p]]

\* what the coding agent may write in one invocation
AgentWriteSets == { {}, {"app", "gen"} }

AgentWrites(t, w) == [p \in Paths |-> IF p \in w THEN "agent" ELSE t[p]]

\* the trees the user may start the script in
UserTrees ==
    { CleanTree,
      [CleanTree EXCEPT !["app"] = "user", !["stub"] = "user"] }

OldEntry == [CleanTree EXCEPT !["app"] = "old"]

RECURSIVE OldStash(_)
OldStash(n) == IF n = 0 THEN <<>> ELSE <<OldEntry>> \o OldStash(n - 1)

----------------------------------------------------------------------------
(* Pure helpers of the runners *)

NoFeedback == [gate |-> "none", k |-> 0, browser |-> 0]

\* mutant of ExitOk: the comparison inverted
ExitOkInverted(code) == code # 0

\* exitCode === 0
ExitOk(code) == code = 0

BuildFeedback(k) == [gate |-> "build", k |-> k, browser |-> 0]

\* mutant of LintFeedback: the build branch pasted into the lint branch
LintFeedbackPasted(k) == [gate |-> "build", k |-> k, browser |-> 0]

LintFeedback(k) == [gate |-> "lint", k |-> k, browser |-> 0]

\* allErrors = [testStdout, testStderr] plus the browser errors if any
TestsFeedback(k, be) == [gate |-> "tests", k |-> k, browser |-> be]

\* getD3kErrors: the tail of the latest log if it matches an error pattern
getD3kErrors(logs, k) == IF logs = "error" THEN k ELSE 0

\* mutant of AllPassed: one conjunct negated
AllPassedSlip(r) == r.build /\ r.lint /\ ~r.tests

\* if (result.build && result.lint && result.tests) break
AllPassed(r) == r.build /\ r.lint /\ r.tests

\* mutant of LoopCond: off by one
LoopCondStrict(a) == a < MAX_FULL_ATTEMPTS

\* for (...; attempt <= MAX_FULL_ATTEMPTS; ...)
LoopCond(a) == a <= MAX_FULL_ATTEMPTS

\* mutant of MayContinue: `continue` in the last attempt as well
MayContinueAlways(a) == a <= MAX_FULL_ATTEMPTS

\* mutant of MayContinue: the comparison turned around
MayContinueNever(a) == a > MAX_FULL_ATTEMPTS

\* if (attempt < MAX_FULL_ATTEMPTS) continue
MayContinue(a) == a < MAX_FULL_ATTEMPTS

\* mutant of RunnerMode: the branches of the conditional swapped
RunnerModeSwapped(full) == IF full THEN "first-shot" ELSE "full"

\* fullMode ? runEvalFull(name, debug) : runEval(name, debug)
RunnerMode(full) == IF full THEN "full" ELSE "first-shot"

\* mutant of InitialResult: attempts starts at 1 in both runners
InitialResultFromOne(name, mode) ==
    [name |-> name, build |-> FALSE, lint |-> FALSE, tests |-> FALSE,
     attempts |-> 1,
     mode |-> mode, error |-> "none"]

\* the initial EvalResult of the two runners
InitialResult(name, mode) ==
    [name |-> name, build |-> FALSE, lint |-> FALSE, tests |-> FALSE,
     attempts |-> IF mode = "full" THEN 0 ELSE 1,
     mode |-> mode, error |-> "none"]

\* mutant of FinallyPc: stopD3k left out of the finally block
FinallyPcNoStop(mode) == "checkout"

\* the first statement of the finally block
FinallyPc(mode) == IF mode = "full" THEN "stopD3k" ELSE "checkout"

\* mutant of AfterCatch: the restore steps written after the try block's work
\* instead of in a finally, so that a caught fault returns without them
AfterCatchNoFinally(mode) == "return"

\* catch (err) { result.error = String(err) }: control goes on to finally
AfterCatch(mode) == FinallyPc(mode)

\* mutant of HasTests: the test gate entered whatever the list holds
HasTestsAlways(tf) == TRUE

\* if (testFiles.length > 0)
HasTests(tf) == tf # {}

\* mutant of AgentThrows: .nothrow() left out, a non-zero exit throws
AgentThrowsOnFailure(code) == code # 0

\* claude ... .quiet().nothrow(): no exit code makes the call throw
AgentThrows(code) == FALSE

\* mutant of PollAgain: off by one
PollAgainInclusive(n) == n <= D3K_MAX_POLLS

\* while (attempts < 30)
PollAgain(n) == n < D3K_MAX_POLLS

\* mutant of Kill: the signal does not end the process
KillNothing(procs, h) == procs

\* d3kProcess.kill()
Kill(procs, h) == procs \ {h}

\* mutant of ClearLogs: the log directory is emptied by writing an empty log
ClearLogsTruncating(logs) == "clean"

\* rm -rf ~/.d3k/logs/*
ClearLogs(logs) == "none"

\* mutant of GitThrows: .nothrow() left out, a non-zero exit throws
GitThrowsOnFailure(code) == code # 0

\* git ... .quiet().nothrow() in the finally block: no exit code throws
GitThrows(code) == FALSE

\* exit codes of a git command of the finally block: it does its work (0) or,
\* where git can fail for reasons outside the tree (a held index.lock, a
\* read-only checkout), fails and leaves tree and stash as they are (1)
GitExitCodes(flaky) == IF flaky THEN {0, 1} ELSE {0}

\* results.map(...) of writeJsonResults, as JSON.stringify lays it out
\* (duration is not modelled; error "none" is the absent key)
writeJsonResults(rs) ==
    [i \in DOMAIN rs |->
        [evalPath |-> rs[i].name,
         mode |-> rs[i].mode,
         result |-> [success |-> rs[i].build /\ rs[i].lint /\ rs[i].tests,
                     buildSuccess |-> rs[i].build,
                     lintSuccess |-> rs[i].lint,
                     testSuccess |-> rs[i].tests,
                     attempts |-> rs[i].attempts,
                     error |-> rs[i].error]]]

\* the file at the output path: not there, or written with an array
NoFile == [written |-> FALSE, content |-> <<>>]
JsonFile(array) == [written |-> TRUE, content |-> array]

\* mutant of ExitCode: a failed or missing outcome makes the process fail
ExitCodeFailing(how, rs) ==
    IF how = "done" /\ \A i \in DOMAIN rs : AllPassed(rs[i]) THEN 0 ELSE 1

\* the exit code of the process when main has ended: main sets no
\* process.exitCode and calls no process.exit, and its rejection is consumed
\* by .catch(console.error)
ExitCode(how, rs) == 0

\* mutant of NextGate: lint and build in each other's place
NextGateLintFirst(step) ==
    CASE step = "agent" -> "lint"
      [] step = "lint" -> "build"
      [] step = "build" -> "tests"

\* the statement order of an attempt: agent, build, lint, test gate
NextGate(step) ==
    CASE step = "agent" -> "build"
      [] step = "build" -> "lint"
      [] step = "lint" -> "tests"

Event(op, k, code) == [op |-> op, k |-> k, code |-> code]

----------------------------------------------------------------------------
(* scripts/update-docs.ts: directories, tarballs, statement order *)

\* a docs tree: entries 1..n of the download ver ("old": an earlier run of
\* the script, "new": this run)
DocsOf(ver, n) == {<<ver, e>> : e \in 1..n}

\* .claude/docs/nextjs: the docs entries in it and the download that
\* .last-updated belongs to ("none": no such file)
EmptyOutput == [docs |-> {}, stamp |-> "none"]

\* what an earlier run of the script can have left in .claude/docs/nextjs:
\* nothing, a complete install with its stamp, or part of the entries
\* without a stamp (a run that failed while moving)
OldOutputs ==
    {EmptyOutput}
      \cup {[docs |-> DocsOf("old", n), stamp |-> "old"] : n \in 0..MaxDocs}
      \cup {[docs |-> DocsOf("old", n), stamp |-> "none"] : n \in 1..(MaxDocs - 1)}

\* .claude/docs/.tmp: the files in it ("junk": left by an earlier run,
\* "tarball", "tree": the extracted next.js-canary directory) and the
\* entries of the extracted docs directory
EmptyTemp == [files |-> {}, docs |-> {}]

\* a tarball: whether the archive has a docs directory, and its entries
Tarballs ==
    {[docsDir |-> FALSE, docs |-> {}]}
      \cup {[docsDir |-> TRUE, docs |-> DocsOf("new", n)] : n \in 0..MaxDocs}

\* what a failed rm -r of a directory can leave of it: any part, the stamp
\* among it or not
PartsOf(out) ==
    {[docs |-> d, stamp |-> st] :
        d \in SUBSET out.docs, st \in {out.stamp, "none"}}

\* mutant of DocOrder: the output directory wiped before the download
DocOrderWipeFirst ==
    << "wipe", "prepare", "fetch", "write", "tar", "readdir", "move",
       "cleanup", "stamp" >>

\* the statements of downloadAndExtractDocs in their order
DocOrder ==
    << "prepare", "fetch", "write", "tar", "wipe", "readdir", "move",
       "cleanup", "stamp" >>

\* the statement after step, or the end of the function
NextDocStep(step) ==
    LET i == CHOOSE n \in DOMAIN DocOrder : DocOrder[n] = step
    IN  IF i < Len(DocOrder) THEN DocOrder[i + 1] ELSE "return"

\* the script is not run
DocsOff ==
    /\ docPc = "off"
    /\ tempDir = EmptyTemp
    /\ outputDir = EmptyOutput
    /\ remote = [docsDir |-> FALSE, docs |-> {}]
    /\ entries = {}
    /\ docExit = -1
    /\ output0 = EmptyOutput
    /\ docTrace = <<>>

----------------------------------------------------------------------------
(* Initial states *)

\* the eval runner before main's loop
InitCommon ==
    /\ fullMode \in BOOLEAN
    /\ idx = 1
    /\ results = <<>>
    /\ mainPc = "loop"
    /\ outputFile = FALSE
    /\ jsonFile = NoFile
    /\ exitCode = -1
    /\ pc = "idle"
    /\ result = InitialResult(0, "first-shot")
    /\ testFiles = {}
    /\ attempt = 0
    /\ feedbackContext = NoFeedback
    /\ browserErrors = 0
    /\ agentExit = -1
    /\ polls = 0
    /\ d3kProcess = 0
    /\ alive = {}
    /\ d3kLogs \in {"none", "error"}
    /\ tree \in UserTrees
    /\ \E n \in 0..MaxStash : stash = OldStash(n)
    /\ tree0 = tree
    /\ stash0 = stash
    /\ payloads = <<>>
    /\ trace = <<>>

\* bun run evals <eval-name>: one name, which may or may not be in the cache
Init ==
    /\ InitCommon
    /\ DocsOff
    /\ gitFlaky = FALSE
    /\ runAll = FALSE
    /\ evalsToRun = <<1>>
    /\ evalFs \in [{1} -> EvalKinds]

\* bun run evals --all: every eval listEvals() finds, started on a clean
\* checkout with no stash entry and no old monitor log (what a run leaves
\* behind is what the next one starts from); each eval directory is either
\* complete (prompt, tests, stubs) or lacks its prompt
InitAll ==
    /\ InitCommon
    /\ DocsOff
    /\ tree = CleanTree /\ stash = <<>> /\ d3kLogs = "none"
    /\ gitFlaky = FALSE
    /\ runAll = TRUE
    /\ \E n \in 1..MaxEvals :
          /\ evalsToRun = [i \in 1..n |-> i]
          /\ evalFs \in [1..n -> {kind \in EvalKinds : kind.tests = kind.prompt}]

\* bun run evals <eval-name> on an eval of the cache, where the git commands
\* of the finally block may fail (no old monitor log)
InitTeardown ==
    /\ InitCommon
    /\ DocsOff
    /\ d3kLogs = "none"
    /\ gitFlaky = TRUE
    /\ runAll = FALSE
    /\ evalsToRun = <<1>>
    /\ evalFs \in [{1} -> {kind \in EvalKinds : kind.prompt}]

\* bun run scripts/update-docs.ts (the eval runner is not run)
InitDocs ==
    /\ InitCommon
    /\ fullMode = FALSE /\ runAll = FALSE /\ gitFlaky = FALSE
    /\ evalsToRun = <<>> /\ evalFs = <<>>
    /\ tree = CleanTree /\ stash = <<>> /\ d3kLogs = "none"
    /\ docPc = DocOrder[1]
    /\ tempDir \in {EmptyTemp, [files |-> {"junk"}, docs |-> {}]}
    /\ outputDir \in OldOutputs
    /\ remote = [docsDir |-> FALSE, docs |-> {}]
    /\ entries = {}
    /\ docExit = -1
    /\ output0 = outputDir
    /\ docTrace = <<>>

----------------------------------------------------------------------------
(* Steps of main and of the two runners *)

docVars == <<docPc, tempDir, outputDir, remote, entries, docExit, output0,
             docTrace>>
envVars == <<fullMode, runAll, evalFs, evalsToRun, gitFlaky, docVars>>
mainVars == <<idx, results, mainPc, outputFile, jsonFile, exitCode>>
outVars == <<outputFile, jsonFile>>
d3kVars == <<polls, d3kProcess, alive>>
histVars == <<tree0, stash0, payloads>>

Kind == evalFs[evalsToRun[idx]]

\* the attempt number an operation belongs to (runEval has one attempt)
CurAttempt == IF result.mode = "full" THEN attempt ELSE 1

Log(op, code) == trace' = Append(trace, Event(op, CurAttempt, code))

\* mutant of NextIteration: the loop variable stepped by two
NextIterationSkipping ==
    /\ attempt' = attempt + 2
    /\ pc' = IF LoopCond(attempt + 2) THEN "agent" ELSE FinallyPc(result.mode)

\* `continue`, and the end of the loop body: attempt++ and the loop test
NextIteration ==
    /\ attempt' = attempt + 1
    /\ pc' = IF LoopCond(attempt + 1) THEN "agent" ELSE FinallyPc(result.mode)

\* main ends: by its last statements ("done": writeJsonResults if --output
\* FILE was given) or by a rejection that crosses the for loop ("rejected":
\* console.error prints it).  Nothing before the end of main depends on
\* --output, so the argument is drawn here.
EndMain(how) ==
    /\ mainPc' = how
    /\ exitCode' = ExitCode(how, results)
    /\ \E given \in BOOLEAN :
          /\ outputFile' = given
          /\ jsonFile' = IF how = "done" /\ given
                          THEN JsonFile(writeJsonResults(results))
                          ELSE jsonFile

\* main's loop takes the next name and enters the runner, up to and
\* including getEvalPrompt and getEvalTestFiles.  getEvalPrompt throws
\* outside the runner's try block: the runner's promise rejects, and so does
\* main's, which ends in main().catch(console.error).
StartRun ==
    /\ mainPc = "loop" /\ pc = "idle" /\ idx <= Len(evalsToRun)
    /\ result' = InitialResult(evalsToRun[idx], RunnerMode(fullMode))
    /\ trace' = <<>>
    /\ payloads' = <<>>
    /\ tree0' = tree
    /\ stash0' = stash
    /\ attempt' = 0
    /\ feedbackContext' = NoFeedback
    /\ browserErrors' = 0
    /\ agentExit' = -1
    /\ polls' = 0
    /\ IF Kind.prompt
       THEN /\ testFiles' = getEvalTestFiles(Kind)
            /\ pc' = "stash"
            /\ UNCHANGED <<mainPc, exitCode, outVars>>
       ELSE /\ testFiles' = {}
            /\ pc' = "idle"
            /\ EndMain("rejected")
    /\ UNCHANGED <<envVars, idx, results, d3kProcess, alive, d3kLogs, tree, stash>>

\* git stash --include-untracked (.nothrow)
Stash ==
    /\ pc = "stash"
    /\ tree' = GitStash(tree, stash).tree
    /\ stash' = GitStash(tree, stash).stash
    /\ Log("stash", 0)
    /\ pc' = "stage"
    /\ UNCHANGED <<envVars, mainVars, result, testFiles, attempt, feedbackContext,
                   browserErrors, agentExit, d3kVars, d3kLogs, histVars>>

\* the two copy loops; mkdirSync / cpSync may throw, which the catch records
Stage ==
    /\ pc = "stage"
    /\ \E fault \in BOOLEAN :
          IF fault
          THEN /\ result' = [result EXCEPT !.error = "staging"]
               /\ pc' = AfterCatch(result.mode)
               /\ Log("stageFault", 1)
               /\ UNCHANGED tree
          ELSE /\ tree' = StageFiles(tree, Kind)
               /\ pc' = IF result.mode = "full" THEN "startD3k" ELSE "agent"
               /\ Log("stage", 0)
               /\ UNCHANGED result
    /\ UNCHANGED <<envVars, mainVars, testFiles, attempt, feedbackContext,
                   browserErrors, agentExit, d3kVars, d3kLogs, stash, histVars>>

\* startD3k up to the spawn: clears the log directory, spawns the monitor
StartD3k ==
    /\ pc = "startD3k"
    /\ d3kLogs' = ClearLogs(d3kLogs)
    /\ d3kProcess' = idx
    /\ alive' = alive \cup {idx}
    /\ polls' = 0
    /\ trace' = trace \o
          << Event("rmLogs", CurAttempt, IF d3kLogs # "none" THEN 1 ELSE 0),
             Event("startD3k", CurAttempt, idx) >>
    /\ pc' = "poll"
    /\ UNCHANGED <<envVars, mainVars, result, testFiles, attempt, feedbackContext,
                   browserErrors, agentExit, tree, stash, histVars>>

\* one round of startD3k's readiness loop; the loop's exit throws
Poll ==
    /\ pc = "poll"
    /\ PollAgain(polls)
    /\ \E ready \in BOOLEAN :
          IF ready
          THEN /\ attempt' = 1
               /\ feedbackContext' = NoFeedback
               /\ pc' = IF LoopCond(1) THEN "agent" ELSE FinallyPc(result.mode)
               /\ Log("ready", 0)
               /\ polls' = 0
               /\ UNCHANGED result
          ELSE /\ polls' = polls + 1
               /\ IF PollAgain(polls + 1)
                  THEN /\ UNCHANGED <<pc, result, trace>>
                  ELSE /\ result' = [result EXCEPT !.error = "d3k"]
                       /\ pc' = AfterCatch(result.mode)
                       /\ Log("d3kTimeout", 1)
               /\ UNCHANGED <<attempt, feedbackContext>>
    /\ UNCHANGED <<envVars, mainVars, testFiles, browserErrors, agentExit,
                   d3kProcess, alive, d3kLogs, tree, stash, histVars>>

\* the prompt is composed and claude is run (.nothrow: any exit code);
\* runEvalFull then sleeps and reads the monitor's log
Agent ==
    /\ pc = "agent"
    /\ \E w \in AgentWriteSets, code \in {0, 1} :
          /\ tree' = AgentWrites(tree, w)
          /\ agentExit' = code
          /\ LET r == IF result.mode = "full"
                      THEN [result EXCEPT !.attempts = attempt]
                      ELSE result
             IN  IF AgentThrows(code)
                 THEN /\ result' = [r EXCEPT !.error = "agent"]
                      /\ pc' = AfterCatch(result.mode)
                      /\ trace' = trace \o << Event("agent", CurAttempt, 0),
                                              Event("agentFault", CurAttempt, 1) >>
                      /\ UNCHANGED <<d3kLogs, browserErrors>>
                 ELSE /\ result' = r
                      /\ pc' = NextGate("agent")
                      /\ IF result.mode = "full"
                         THEN \E log \in {"clean", "error"} :
                                 /\ d3kLogs' = log
                                 /\ browserErrors' = getD3kErrors(log, attempt)
                                 /\ Log("agent", IF log = "error" THEN 1 ELSE 0)
                         ELSE /\ Log("agent", 0)
                              /\ UNCHANGED <<d3kLogs, browserErrors>>
    /\ payloads' = Append(payloads, IF result.mode = "full"
                                    THEN feedbackContext ELSE NoFeedback)
    /\ UNCHANGED <<envVars, mainVars, testFiles, attempt, feedbackContext,
                   d3kVars, stash, tree0, stash0>>

\* bun run build
Build ==
    /\ pc = "build"
    /\ \E code \in {0, 1} :
          /\ result' = [result EXCEPT !.build = ExitOk(code)]
          /\ Log("build", code)
          /\ IF result.mode = "full" /\ ~ExitOk(code)
             THEN /\ feedbackContext' = BuildFeedback(attempt)
                  /\ IF MayContinue(attempt)
                     THEN NextIteration
                     ELSE pc' = NextGate("build") /\ UNCHANGED attempt
             ELSE /\ pc' = NextGate("build")
                  /\ UNCHANGED <<attempt, feedbackContext>>
    /\ UNCHANGED <<envVars, mainVars, testFiles, browserErrors, agentExit,
                   d3kVars, d3kLogs, tree, stash, histVars>>

\* bun x ultracite check
Lint ==
    /\ pc = "lint"
    /\ \E code \in {0, 1} :
          /\ result' = [result EXCEPT !.lint = ExitOk(code)]
          /\ Log("lint", code)
          /\ IF result.mode = "full" /\ ~ExitOk(code)
             THEN /\ feedbackContext' = LintFeedback(attempt)
                  /\ IF MayContinue(attempt)
                     THEN NextIteration
                     ELSE pc' = NextGate("lint") /\ UNCHANGED attempt
             ELSE /\ pc' = NextGate("lint")
                  /\ UNCHANGED <<attempt, feedbackContext>>
    /\ UNCHANGED <<envVars, mainVars, testFiles, browserErrors, agentExit,
                   d3kVars, d3kLogs, tree, stash, histVars>>

\* what follows the test gate: the success check of runEvalFull and the end
\* of the loop body, or the end of runEval's try block
AfterTests(r) ==
    IF r.mode = "full"
    THEN IF AllPassed(r)
         THEN pc' = FinallyPc(r.mode) /\ UNCHANGED attempt
         ELSE NextIteration
    ELSE pc' = FinallyPc(r.mode) /\ UNCHANGED attempt

\* the test gate: bun add -d vitest ..., then vitest run on the test files;
\* without test files the gate is recorded as passed
Tests ==
    /\ pc = "tests"
    /\ IF HasTests(testFiles)
       THEN /\ tree' = [tree EXCEPT !["pkg"] = "vitest"]
            /\ \E out \in {"exit0", "exit1", "throw"} :
                  IF out = "throw"
                  THEN /\ result' = [result EXCEPT !.error = "tests"]
                       /\ pc' = AfterCatch(result.mode)
                       /\ Log("testsFault", 1)
                       /\ UNCHANGED <<attempt, feedbackContext>>
                  ELSE LET code == IF out = "exit0" THEN 0 ELSE 1
                           r == [result EXCEPT !.tests = ExitOk(code)]
                       IN  /\ result' = r
                           /\ Log("tests", code)
                           /\ IF r.mode = "full" /\ ~ExitOk(code)
                              THEN /\ feedbackContext' =
                                         TestsFeedback(attempt, browserErrors)
                                   /\ IF MayContinue(attempt)
                                      THEN NextIteration
                                      ELSE AfterTests(r)
                              ELSE /\ AfterTests(r)
                                   /\ UNCHANGED feedbackContext
       ELSE /\ result' = [result EXCEPT !.tests = TRUE]
            /\ Log("testsSkipped", 0)
            /\ AfterTests([result EXCEPT !.tests = TRUE])
            /\ UNCHANGED <<tree, feedbackContext>>
    /\ UNCHANGED <<envVars, mainVars, testFiles, browserErrors, agentExit,
                   d3kVars, d3kLogs, stash, histVars>>

\* the end of a git step of the finally block: on to the next statement, or
\* out of the runner with the exception, which main does not catch
LeaveFinally(code, next) ==
    IF GitThrows(code)
    THEN pc' = "idle" /\ EndMain("rejected")
    ELSE pc' = next /\ UNCHANGED <<mainPc, exitCode, outVars>>

\* finally: stopD3k
StopD3k ==
    /\ pc = "stopD3k"
    /\ IF d3kProcess # 0
       THEN /\ alive' = Kill(alive, d3kProcess)
            /\ d3kProcess' = 0
       ELSE UNCHANGED <<alive, d3kProcess>>
    /\ Log("stopD3k", d3kProcess)
    /\ pc' = "checkout"
    /\ UNCHANGED <<envVars, mainVars, result, testFiles, attempt, feedbackContext,
                   browserErrors, agentExit, polls, d3kLogs, tree, stash, histVars>>

\* finally: git checkout -- .
Checkout ==
    /\ pc = "checkout"
    /\ \E code \in GitExitCodes(gitFlaky) :
          /\ tree' = IF code = 0 THEN GitCheckout(tree) ELSE tree
          /\ Log("checkout", code)
          /\ LeaveFinally(code, "clean")
    /\ UNCHANGED <<envVars, idx, results, result, testFiles, attempt, feedbackContext,
                   browserErrors, agentExit, d3kVars, d3kLogs, stash, histVars>>

\* finally: git clean -fd
Clean ==
    /\ pc = "clean"
    /\ \E code \in GitExitCodes(gitFlaky) :
          /\ tree' = IF code = 0 THEN GitClean(tree) ELSE tree
          /\ Log("clean", code)
          /\ LeaveFinally(code, "pop")
    /\ UNCHANGED <<envVars, idx, results, result, testFiles, attempt, feedbackContext,
                   browserErrors, agentExit, d3kVars, d3kLogs, stash, histVars>>

\* finally: git stash pop
Pop ==
    /\ pc = "pop"
    /\ \E c \in GitExitCodes(gitFlaky) :
          LET popped == IF c = 0 THEN GitStashPop(tree, stash)
                                ELSE [tree |-> tree, stash |-> stash]
              code == IF popped.stash = stash THEN 1 ELSE 0
          IN  /\ tree' = popped.tree
              /\ stash' = popped.stash
              /\ Log("pop", code)
              /\ LeaveFinally(code, "return")
    /\ UNCHANGED <<envVars, idx, results, result, testFiles, attempt, feedbackContext,
                   browserErrors, agentExit, d3kVars, d3kLogs, histVars>>

\* the runner returns its result and main pushes it
Return ==
    /\ pc = "return"
    /\ results' = Append(results, result)
    /\ idx' = idx + 1
    /\ pc' = "idle"
    /\ UNCHANGED <<envVars, mainPc, outVars, exitCode, result, testFiles,
                   attempt, feedbackContext, browserErrors, agentExit, d3kVars,
                   d3kLogs, tree, stash, histVars, trace>>

\* the loop of main is over: printResults, writeJsonResults if --output FILE
\* was given, and the process ends
Finish ==
    /\ mainPc = "loop" /\ pc = "idle" /\ idx > Len(evalsToRun)
    /\ EndMain("done")
    /\ UNCHANGED <<envVars, idx, results, pc, result, testFiles, attempt,
                   feedbackContext, browserErrors, agentExit, d3kVars, d3kLogs,
                   tree, stash, histVars, trace>>

----------------------------------------------------------------------------
(* Steps of downloadAndExtractDocs (update-docs.ts) *)

evalVars == <<fullMode, runAll, gitFlaky, evalFs, evalsToRun, idx, results,
              mainPc, outputFile, jsonFile, exitCode, pc, result, testFiles,
              attempt, feedbackContext, browserErrors, agentExit, polls,
              d3kProcess, alive, d3kLogs, tree, stash, tree0, stash0, payloads,
              trace>>

\* a statement throws, or runCommand rejects: the catch of line 63 prints
\* the error and calls process.exit(1)
DocThrow ==
    /\ docPc' = "exit"
    /\ docExit' = 1
    /\ UNCHANGED docTrace

\* a statement is over: on to the next one, or the function returns and the
\* process ends with code 0
DocDone(step) ==
    /\ docTrace' = Append(docTrace, step)
    /\ IF NextDocStep(step) = "return"
       THEN docPc' = "exit" /\ docExit' = 0
       ELSE docPc' = NextDocStep(step) /\ UNCHANGED docExit

\* rm(tempDir, {recursive, force}); mkdir(tempDir, {recursive})
Prepare ==
    /\ docPc = "prepare"
    /\ \/ tempDir' = EmptyTemp /\ DocDone("prepare")
       \/ UNCHANGED tempDir /\ DocThrow
    /\ UNCHANGED <<evalVars, outputDir, remote, entries, output0>>

\* fetch(tarballUrl): it throws, answers not OK, or answers OK with a tarball
Fetch ==
    /\ docPc = "fetch"
    /\ \/ \E tb \in Tarballs : remote' = tb /\ DocDone("fetch")
       \/ UNCHANGED remote /\ DocThrow
    /\ UNCHANGED <<evalVars, tempDir, outputDir, entries, output0>>

\* writeFile(tarballPath, ...)
Write ==
    /\ docPc = "write"
    /\ \/ /\ tempDir' = [tempDir EXCEPT !.files = @ \cup {"tarball"}]
          /\ DocDone("write")
       \/ UNCHANGED tempDir /\ DocThrow
    /\ UNCHANGED <<evalVars, outputDir, remote, entries, output0>>

\* runCommand("tar", ["-xzf", tarballPath, "-C", tempDir]): exit code 0, or
\* not 0 with any part of the archive extracted
Tar ==
    /\ docPc = "tar"
    /\ \/ /\ tempDir' = [files |-> tempDir.files \cup {"tree"},
                         docs |-> remote.docs]
          /\ DocDone("tar")
       \/ /\ \E part \in SUBSET remote.docs :
                tempDir' = [files |-> tempDir.files \cup {"tree"}, docs |-> part]
          /\ DocThrow
    /\ UNCHANGED <<evalVars, outputDir, remote, entries, output0>>

\* rm(OUTPUT_DIR, {recursive, force}); mkdir(OUTPUT_DIR, {recursive}); a
\* failed rm leaves any part of the directory
Wipe ==
    /\ docPc = "wipe"
    /\ \/ outputDir' = EmptyOutput /\ DocDone("wipe")
       \/ /\ \E part \in PartsOf(outputDir) : outputDir' = part
          /\ DocThrow
    /\ UNCHANGED <<evalVars, tempDir, remote, entries, output0>>

\* readdir(docsSourceDir): throws if the archive had no docs directory
ReadDir ==
    /\ docPc = "readdir"
    /\ IF remote.docsDir /\ "tree" \in tempDir.files
       THEN entries' = tempDir.docs /\ DocDone("readdir")
       ELSE UNCHANGED entries /\ DocThrow
    /\ UNCHANGED <<evalVars, tempDir, outputDir, remote, output0>>

\* the for loop: runCommand("mv", [join(docsSourceDir, entry), OUTPUT_DIR])
\* for the next entry, or the end of the loop
Move ==
    /\ docPc = "move"
    /\ IF entries = {}
       THEN DocDone("move") /\ UNCHANGED <<tempDir, outputDir, entries>>
       ELSE \E e \in entries :
               \/ /\ entries' = entries \ {e}
                  /\ tempDir' = [tempDir EXCEPT !.docs = @ \ {e}]
                  /\ outputDir' = [outputDir EXCEPT !.docs = @ \cup {e}]
                  /\ UNCHANGED <<docPc, docExit, docTrace>>
               \/ UNCHANGED <<tempDir, outputDir, entries>> /\ DocThrow
    /\ UNCHANGED <<evalVars, remote, output0>>

\* rm(tempDir, {recursive, force})
Cleanup ==
    /\ docPc = "cleanup"
    /\ \/ tempDir' = EmptyTemp /\ DocDone("cleanup")
       \/ UNCHANGED tempDir /\ DocThrow
    /\ UNCHANGED <<evalVars, outputDir, remote, entries, output0>>

\* writeFile(join(OUTPUT_DIR, ".last-updated"), timestamp)
Stamp ==
    /\ docPc = "stamp"
    /\ \/ outputDir' = [outputDir EXCEPT !.stamp = "new"] /\ DocDone("stamp")
       \/ UNCHANGED outputDir /\ DocThrow
    /\ UNCHANGED <<evalVars, tempDir, remote, entries, output0>>

NextDocs ==
    \/ Prepare
    \/ Fetch
    \/ Write
    \/ Tar
    \/ Wipe
    \/ ReadDir
    \/ Move
    \/ Cleanup
    \/ Stamp

SpecDocs == InitDocs /\ [][NextDocs]_vars

----------------------------------------------------------------------------
(* The specifications of the eval runner *)

Next ==
    \/ StartRun
    \/ Stash
    \/ Stage
    \/ StartD3k
    \/ Poll
    \/ Agent
    \/ Build
    \/ Lint
    \/ Tests
    \/ StopD3k
    \/ Checkout
    \/ Clean
    \/ Pop
    \/ Return
    \/ Finish

Spec == Init /\ [][Next]_vars

SpecAll == InitAll /\ [][Next]_vars

SpecTeardown == InitTeardown /\ [][Next]_vars

\* every external call returns and the single thread of control goes on
FairSpec == Spec /\ WF_vars(Next)

----------------------------------------------------------------------------
(* Reading the history of a run *)

HasOp(op) == \E i \in DOMAIN trace : trace[i].op = op

CountOp(op) == Cardinality({i \in DOMAIN trace : trace[i].op = op})

HasEvent(op, k, code) == \E i \in DOMAIN trace : trace[i] = Event(op, k, code)

\* the operations that invoke the agent or run a gate
WorkOps == {"agent", "build", "lint", "tests", "testsFault"}

\* attempt k passed the three gates (by exit codes; no test files: skipped)
PassedAt(k) ==
    /\ HasEvent("build", k, 0)
    /\ HasEvent("lint", k, 0)
    /\ HasEvent("tests", k, 0) \/ HasEvent("testsSkipped", k, 0)

\* attempt k failed a gate
FailedAt(k) ==
    \/ HasEvent("build", k, 1)
    \/ HasEvent("lint", k, 1)
    \/ HasEvent("tests", k, 1)

FirstFailingGate(k) ==
    IF HasEvent("build", k, 1) THEN "build"
    ELSE IF HasEvent("lint", k, 1) THEN "lint"
    ELSE IF HasEvent("tests", k, 1) THEN "tests"
    ELSE "none"

Attempts == 1..MAX_FULL_ATTEMPTS

\* the runner is about to return `result`
Returning == pc = "return"

----------------------------------------------------------------------------
(* Claims *)

\* C1 (early exit): in feedback mode, once build, lint and tests have all
\* passed in attempt k, the run invokes the agent no more and runs no gate
\* any more, and attempts stays k.
C1_EarlyExit ==
    result.mode = "full" =>
        \A i \in DOMAIN trace :
            (trace[i].op \in {"tests", "testsSkipped"} /\ PassedAt(trace[i].k)) =>
                /\ result.attempts = trace[i].k
                /\ \A j \in DOMAIN trace :
                      j > i => trace[j].op \notin WorkOps \cup {"testsSkipped"}

\* a feedback run that passed on its first attempt has been torn down
C1_Witness ==
    /\ Returning /\ result.mode = "full"
    /\ PassedAt(1)
    /\ HasEvent("tests", 1, 0)

\* C2 (exhaustion): a feedback run that returns without a fault and in which
\* no attempt passed all gates has performed MAX_FULL_ATTEMPTS attempts, each
\* of which failed a gate; attempts is MAX_FULL_ATTEMPTS and the outcome is
\* not a success.
C2_Exhaustion ==
    (/\ Returning /\ result.mode = "full" /\ result.error = "none"
     /\ \A k \in Attempts : ~PassedAt(k)) =>
        /\ \A k \in Attempts : FailedAt(k)
        /\ result.attempts = MAX_FULL_ATTEMPTS
        /\ ~(result.build /\ result.lint /\ result.tests)

\* three failing attempts, the last one failing only its tests
C2_Witness ==
    /\ Returning /\ result.mode = "full" /\ result.error = "none"
    /\ \A k \in Attempts : FailedAt(k)
    /\ HasEvent("tests", MAX_FULL_ATTEMPTS, 1)

\* C3 (attempts range): every outcome pushed to the results, in either mode
\* and on every exit path, has attempts in 1..MAX_FULL_ATTEMPTS.
C3_AttemptsInRange ==
    \A i \in DOMAIN results : results[i].attempts \in Attempts

\* C4 (one outcome per identifier): when main has ended, the results hold
\* one entry per identifier of the batch.
C4_OneOutcomePerEval ==
    mainPc \in {"done", "rejected"} => Len(results) = Len(evalsToRun)

\* the teardown steps appear in the order checkout, clean, pop, each once,
\* and nothing that invokes the agent or a gate follows the first of them
TeardownOrder ==
    /\ \A op \in {"checkout", "clean", "pop"} : CountOp(op) <= 1
    /\ \A i, j \in DOMAIN trace :
          /\ (trace[i].op = "checkout" /\ j > i) => trace[j].op \notin WorkOps
          /\ (trace[i].op = "stopD3k" /\ j > i) => trace[j].op \notin WorkOps
          /\ trace[j].op = "clean" => \E h \in 1..(j - 1) : trace[h].op = "checkout"
          /\ trace[j].op = "pop" => \E h \in 1..(j - 1) : trace[h].op = "clean"

\* C5 (teardown is unconditional): in both modes a run that has stashed goes
\* on to checkout, clean and stash pop, in this order, on every exit path,
\* and invokes no agent and no gate once teardown has started.
C5_Teardown ==
    /\ [] TeardownOrder
    /\ (HasOp("stash") /\ ~HasOp("pop")) ~> HasOp("pop")
    /\ [] (Returning => HasOp("stash") /\ HasOp("pop"))

\* a run that caught a fault has been torn down
C5_Witness ==
    /\ Returning /\ result.error # "none"
    /\ Len(trace) >= 3
    /\ trace[Len(trace) - 2].op = "checkout"
    /\ trace[Len(trace) - 1].op = "clean"
    /\ trace[Len(trace)].op = "pop"

\* C6 (round trip): after a run without a fault the working tree is what it
\* was before the run, whatever the initial tree and stash.
C6_RoundTrip ==
    (Returning /\ result.error = "none") => tree = tree0

\* C7 (feedback provenance): in feedback mode the prompt of attempt 1 carries
\* no feedback, and the prompt of attempt k+1 carries the output of the first
\* failing gate of attempt k, captured in attempt k.
C7_FeedbackProvenance ==
    \A n \in DOMAIN payloads :
        IF n = 1
        THEN payloads[n] = NoFeedback
        ELSE /\ FirstFailingGate(n - 1) # "none"
             /\ payloads[n].gate = FirstFailingGate(n - 1)
             /\ payloads[n].k = n - 1
             /\ payloads[n].browser \in {0, n - 1}

\* lint failed in attempt 1 after an attempt-1 build that passed, then build
\* failed in attempt 2: the third prompt carries the build output of attempt 2
C7_Witness ==
    /\ Len(payloads) = MAX_FULL_ATTEMPTS
    /\ payloads[2] = [gate |-> "lint", k |-> 1, browser |-> 0]
    /\ payloads[MAX_FULL_ATTEMPTS].gate = "build"

\* C8 (runtime-log feedback): in feedback mode, when attempt k failed a gate
\* and the monitor's log matched an error pattern in attempt k, the prompt
\* of attempt k+1 carries that log text.
C8_RuntimeLogFeedback ==
    \A n \in DOMAIN payloads :
        (n > 1 /\ result.mode = "full" /\ HasEvent("agent", n - 1, 1)) =>
            payloads[n].browser = n - 1

C10_SuccessOnRetry ==
    (Returning /\ result.mode = "full") =>
        \A k \in Attempts :
            (PassedAt(k) /\ \A j \in 1..(k - 1) : FailedAt(j)) =>
                /\ result.attempts = k
                /\ result.build /\ result.lint /\ result.tests

\* build fails in attempt 1 and everything passes in attempt 2
C10_Witness ==
    /\ Returning /\ result.mode = "full"
    /\ HasEvent("build", 1, 1)
    /\ PassedAt(2)
    /\ result.attempts = 2

----------------------------------------------------------------------------
(* C11: no test files *)

\* C11 as stated: when no test files were staged, the test runner is never
\* executed and the returned outcome records tests == true
C11_Original ==
    (Returning /\ testFiles = {}) =>
        /\ result.tests
        /\ ~HasOp("tests") /\ ~HasOp("testsFault")

\* C11 amended: when no test files were staged, the test runner is never
\* executed in the run; a run that reaches its test gate records tests == true
\* whatever build and lint gave, in both modes; a run that a fault ended before
\* the test gate keeps tests == false
C11_NoTestFiles ==
    testFiles = {} =>
        /\ ~HasOp("tests") /\ ~HasOp("testsFault")
        /\ HasOp("testsSkipped") => result.tests
        /\ (Returning /\ result.error = "none") =>
               (result.tests /\ HasOp("testsSkipped"))
        /\ (Returning /\ result.error # "none") => ~result.tests

\* a feedback run without test files whose build failed in every attempt
C11_Witness ==
    /\ Returning /\ testFiles = {} /\ result.mode = "full"
    /\ \A k \in Attempts : HasEvent("build", k, 1)
    /\ HasEvent("lint", MAX_FULL_ATTEMPTS, 1)
    /\ result.tests /\ ~result.build /\ ~result.lint

----------------------------------------------------------------------------
(* C12: short-circuit of the gates *)

\* some operation among ops was logged in attempt k
RanAt(ops, k) == \E i \in DOMAIN trace : trace[i].k = k /\ trace[i].op \in ops

\* in attempt k a failed build is followed by no lint and no tests, and a
\* failed lint by no tests
ShortCircuitAt(k) ==
    /\ HasEvent("build", k, 1) => ~RanAt({"lint", "tests", "testsFault"}, k)
    /\ HasEvent("lint", k, 1) => ~RanAt({"tests", "testsFault"}, k)

\* C12 as stated: in every attempt 1..max of either mode a failure of an
\* earlier gate short-circuits the later gates of that attempt
C12_Original == \A k \in Attempts : ShortCircuitAt(k)

\* C12 amended: in feedback mode a gate failure in an attempt before the last
\* short-circuits the later gates of that attempt; the last attempt of
\* feedback mode and the only attempt of single-shot mode run lint after a
\* failed build, and the test gate after a failed lint
C12_ShortCircuit ==
    /\ result.mode = "full" =>
           \A k \in 1..(MAX_FULL_ATTEMPTS - 1) : ShortCircuitAt(k)
    /\ LET last == IF result.mode = "full" THEN MAX_FULL_ATTEMPTS ELSE 1
       IN  Returning =>
             /\ HasEvent("build", last, 1) => RanAt({"lint"}, last)
             /\ HasEvent("lint", last, 1) =>
                    RanAt({"tests", "testsFault", "testsSkipped"}, last)

\* a feedback run whose first attempt ended at a failed build and whose
\* last attempt went through all three gates after a failed build
C12_Witness ==
    /\ Returning /\ result.mode = "full" /\ testFiles # {}
    /\ HasEvent("build", 1, 1) /\ ~RanAt({"lint", "tests"}, 1)
    /\ HasEvent("build", MAX_FULL_ATTEMPTS, 1)
    /\ RanAt({"lint"}, MAX_FULL_ATTEMPTS) /\ RanAt({"tests"}, MAX_FULL_ATTEMPTS)

----------------------------------------------------------------------------
(* C13: the agent's exit code *)

\* C13: whatever the agent's exit code, the build gate is the next operation
\* of the attempt, the error field is set only by a staging, monitor or
\* test-runner fault, and an outcome without error holds exactly what the
\* gates of its last attempt gave
C13_AgentExitNotFatal ==
    /\ \A i \in DOMAIN trace :
          trace[i].op = "agent" =>
             IF i < Len(trace)
             THEN trace[i + 1].op = "build" /\ trace[i + 1].k = trace[i].k
             ELSE pc = "build" /\ result.error = "none"
                    /\ agentExit \in {0, 1}
    /\ ~HasOp("agentFault")
    /\ result.error # "none" =>
          \/ result.error = "staging" /\ HasOp("stageFault")
          \/ result.error = "d3k" /\ HasOp("d3kTimeout")
          \/ result.error = "tests" /\ HasOp("testsFault")
    /\ (Returning /\ result.error = "none") =>
          LET a == result.attempts
          IN  /\ result.build <=> HasEvent("build", a, 0)
              /\ result.lint <=> HasEvent("lint", a, 0)
              /\ result.tests <=>
                    (HasEvent("tests", a, 0) \/ HasEvent("testsSkipped", a, 0))

\* a run whose agent exited non-zero in the first attempt and whose gates all
\* passed in that attempt
C13_Witness ==
    /\ Returning /\ agentExit = 1 /\ result.attempts = 1
    /\ result.error = "none" /\ AllPassed(result)
    /\ HasEvent("build", 1, 0)

----------------------------------------------------------------------------
(* C14: faults inside a run *)

FaultOps == {"stageFault", "d3kTimeout", "testsFault"}

\* the state part of C14: a fault is logged exactly when the error field is
\* set, the fault is the last operation before the finally block, it does not
\* reach main, a returned outcome with error has been through checkout,
\* clean and stash pop, and no outcome with error has all three gates true
FaultCaught ==
    /\ (\E op \in FaultOps : HasOp(op)) <=> result.error # "none"
    /\ \A i \in DOMAIN trace :
          trace[i].op \in FaultOps =>
             /\ mainPc # "rejected"
             /\ \A j \in (i + 1)..Len(trace) :
                   trace[j].op \in {"stopD3k", "checkout", "clean", "pop"}
    /\ (Returning /\ result.error # "none") =>
          HasOp("checkout") /\ HasOp("clean") /\ HasOp("pop")
    /\ result.error # "none" => ~AllPassed(result)
    /\ \A i \in DOMAIN results :
          results[i].error # "none" => ~AllPassed(results[i])

\* C14: a fault during staging, monitor start or verification is caught in
\* the run and stored in the error field, teardown still runs to its end and
\* the run returns, and an outcome with error never has build, lint and tests
\* all true
C14_FaultHandling ==
    /\ []FaultCaught
    /\ (result.error # "none" /\ pc # "idle") ~> (Returning /\ HasOp("pop"))

\* a run whose test runner could not be started after build and lint passed:
\* it returned through teardown with the error recorded
C14_Witness ==
    /\ Returning /\ result.error = "tests"
    /\ result.build /\ result.lint /\ ~result.tests
    /\ HasOp("testsFault") /\ HasOp("pop")

----------------------------------------------------------------------------
(* C15: a batch goes on after a fault *)

\* evaluation i of the batch has been started: its outcome is in results or
\* it is the one running
Started(i) == i <= Len(results) \/ (i = idx /\ pc # "idle")

\* C15: in a batch of several evaluations a fault in evaluation i (missing
\* prompt, staging fault, monitor not ready) is recorded on i's outcome and
\* does not abort the batch: main never stops before the last evaluation,
\* evaluation i + 1 is started once i is over, and the final results cover
\* every identifier in order
C15_BatchContinuation ==
    Len(evalsToRun) > 1 =>
        /\ mainPc # "rejected"
        /\ \A i \in DOMAIN evalsToRun :
              (Started(i) /\ ~evalFs[evalsToRun[i]].prompt) =>
                  (i = idx /\ result.error # "none")
                     \/ (i <= Len(results) /\ results[i].error # "none")
        /\ mainPc # "loop" =>
              /\ Len(results) = Len(evalsToRun)
              /\ \A i \in DOMAIN results : results[i].name = evalsToRun[i]

----------------------------------------------------------------------------
(* C16: the monitor's lifecycle *)

\* the pids the run spawned / killed, read from the history
SpawnedPids == {trace[i].code : i \in {j \in DOMAIN trace : trace[j].op = "startD3k"}}
KilledPids == {trace[i].code : i \in {j \in DOMAIN trace : trace[j].op = "stopD3k"}} \ {0}

\* C16 as stated: every feedback-mode run starts exactly one monitor and
\* stops that same process; once the run has returned no monitor is alive
\* and the handle is null
C16_Original ==
    (Returning /\ result.mode = "full") =>
        /\ CountOp("startD3k") = 1
        /\ KilledPids = SpawnedPids
        /\ alive = {} /\ d3kProcess = 0

\* C16 amended: a feedback-mode run starts one monitor when its staging
\* succeeds and none when staging faults, never more than one; it stops the
\* process it started; on every exit path no monitor is alive and the handle
\* is null once the run has returned; a single-shot run starts none
C16_MonitorLifecycle ==
    /\ CountOp("startD3k") <= 1 /\ Cardinality(alive) <= 1
    /\ alive = (IF d3kProcess = 0 THEN {} ELSE {d3kProcess})
    /\ alive = SpawnedPids \ KilledPids
    /\ KilledPids \subseteq SpawnedPids
    /\ result.mode = "first-shot" => SpawnedPids = {}
    /\ HasOp("stageFault") => SpawnedPids = {}
    /\ (result.mode = "full" /\ HasOp("stage") /\ pc # "startD3k") =>
           CountOp("startD3k") = 1
    /\ pc \in {"return", "idle"} => alive = {} /\ d3kProcess = 0
    /\ (Returning /\ result.mode = "full") =>
           CountOp("stopD3k") = 1 /\ KilledPids = SpawnedPids

\* a feedback run that passed returned with its monitor started and stopped
C16_Witness ==
    /\ Returning /\ result.mode = "full" /\ AllPassed(result)
    /\ SpawnedPids = {idx} /\ KilledPids = {idx}
    /\ alive = {} /\ d3kProcess = 0

----------------------------------------------------------------------------
(* C17: the bounded readiness wait *)

\* a step of startD3k's loop: the poll answered (the run goes on to its first
\* attempt), or it did not and the count grows by one; the fault is raised
\* exactly when the count reaches the maximum
PollStep ==
    pc = "poll" =>
        \/ pc' = "agent" /\ ~HasOp("d3kTimeout")' /\ result' = result
        \/ /\ polls' = polls + 1 /\ polls' < D3K_MAX_POLLS
           /\ pc' = "poll" /\ trace' = trace /\ result' = result
        \/ /\ polls' = polls + 1 /\ polls' = D3K_MAX_POLLS
           /\ HasOp("d3kTimeout")' /\ result'.error = "d3k"
           /\ pc' = "stopD3k"

\* after the fault of startD3k: the agent was not invoked, no gate was run,
\* and the outcome has its error field set and no gate passed
TimedOut ==
    HasOp("d3kTimeout") =>
        /\ polls = D3K_MAX_POLLS
        /\ ~\E i \in DOMAIN trace : trace[i].op \in WorkOps \cup {"testsSkipped"}
        /\ payloads = <<>>
        /\ result.error = "d3k"
        /\ ~result.build /\ ~result.lint /\ ~result.tests

\* C17: startD3k polls at most 30 times, returns at the first poll that
\* answers, and raises after the 30th unanswered poll; then the run invokes
\* the agent zero times, runs no gate and returns an outcome with error set
C17_BoundedWait ==
    /\ [](polls <= D3K_MAX_POLLS /\ (pc = "poll" => polls < D3K_MAX_POLLS))
    /\ [][PollStep]_vars
    /\ []TimedOut

\* a run that returned after the 30th unanswered poll
C17_Witness ==
    /\ Returning /\ HasOp("d3kTimeout") /\ polls = D3K_MAX_POLLS
    /\ result.error = "d3k" /\ ~HasOp("agent")

----------------------------------------------------------------------------
(* C18: one evaluation at a time *)

\* the run of the evaluation at position idx is between its first operation
\* and its return
Running == pc # "idle"

\* C18: in a batch the run of evaluation i + 1 acts only after the run of
\* evaluation i has been through teardown and has returned: while a run is
\* active every earlier evaluation has its outcome in results and the active
\* run is the next identifier; there is never more than the active run's own
\* stash entry, and never more than one monitor process alive, which is the
\* active run's
C18_OneAtATime ==
    /\ Running =>
          /\ idx \in DOMAIN evalsToRun
          /\ Len(results) = idx - 1
          /\ result.name = evalsToRun[idx]
          /\ \A i \in DOMAIN results : results[i].name = evalsToRun[i]
    /\ ~Running => (alive = {} /\ d3kProcess = 0 /\ stash = stash0)
    /\ Len(stash) <= Len(stash0) + 1
    /\ Cardinality(alive) <= 1
    /\ alive \subseteq {idx}

\* the second evaluation of a batch at work with its own monitor, after the
\* first has returned
C18_Witness ==
    /\ runAll /\ idx = 2 /\ pc = "build" /\ alive = {2}
    /\ Len(results) = 1 /\ results[1].mode = "full"
    /\ results[1].attempts >= 1 /\ results[1].error = "none"
    /\ HasOp("stash") /\ HasOp("agent")

----------------------------------------------------------------------------
(* C19: staging of the stub files *)

\* the staging step leaves every stub path that holds a file as it is, and
\* changes a stub path only from absent to the eval's copy
StageStep ==
    pc = "stage" =>
        \A p \in Kind.stubs :
            /\ tree[p] # "absent" => tree'[p] = tree[p]
            /\ tree'[p] # tree[p] => (tree[p] = "absent" /\ tree'[p] = "eval")
            /\ (HasOp("stage")' /\ tree[p] = "absent") => tree'[p] = "eval"

\* C19: in both modes a stub file is copied into the working tree only if no
\* file exists at its relative path at staging time, and every file that
\* existed at such a path keeps its content over staging
C19_StubsNeverOverwrite == [][StageStep]_vars

\* right after a staging step of an eval with two stubs: the one whose path
\* was taken by a tracked file was skipped, the other was copied
C19_Witness ==
    /\ trace # <<>> /\ trace[Len(trace)].op = "stage"
    /\ Kind.stubs = {"app", "stub"}
    /\ tree["app"] = "head" /\ tree["stub"] = "eval" /\ tree["test"] = "eval"

----------------------------------------------------------------------------
(* C20: the monitor's log directory *)

\* C20 as stated: no step of the runner creates, modifies or deletes a file
\* of the monitor's log directory; the directory changes only while the
\* monitor runs beside the agent
C20_Original == [][d3kLogs' # d3kLogs => pc = "agent"]_vars

\* a step that changes the log directory is the monitor's own writing beside
\* the agent, or the deletion at the start of startD3k, before the spawn
LogDirStep ==
    d3kLogs' # d3kLogs =>
        \/ pc = "agent" /\ alive = {d3kProcess} /\ d3kProcess # 0
        \/ /\ pc = "startD3k" /\ alive = {}
           /\ d3kLogs' = "none"
           /\ CountOp("rmLogs")' = 1 /\ ~HasOp("agent")'

\* C20 amended: the runner never creates or modifies a file of the monitor's
\* log directory; it deletes the old logs once, when startD3k begins and
\* before the monitor is spawned, and from then on only reads them
C20_LogsReadOnly == [][LogDirStep]_vars

\* a feedback run that found old logs, deleted them at monitor start and
\* later read an error from the log the monitor wrote
C20_Witness ==
    /\ Returning /\ result.mode = "full"
    /\ \E i \in DOMAIN trace : trace[i].op = "rmLogs" /\ trace[i].code = 1
    /\ \E i \in DOMAIN trace : trace[i].op = "agent" /\ trace[i].code = 1
    /\ d3kLogs = "error"

----------------------------------------------------------------------------
(* C21: teardown is best-effort *)

\* the statement of the finally block that follows the one at position p
NextInFinally(p) ==
    CASE p = "stopD3k" -> "checkout"
      [] p = "checkout" -> "clean"
      [] p = "clean" -> "pop"
      [] p = "pop" -> "return"

\* a step of the finally block, failed or not, leaves the outcome as it is,
\* raises nothing into main and goes on to the next statement of the block;
\* the return step hands main the outcome the try block left
TeardownStep ==
    /\ pc \in {"stopD3k", "checkout", "clean", "pop"} =>
          /\ result' = result
          /\ mainPc' = mainPc
          /\ pc' = NextInFinally(pc)
    /\ pc = "return" => (results' = Append(results, result) /\ mainPc' = mainPc)

\* C21: a failure of a teardown step is not raised out of the run: the run
\* still returns its outcome unchanged, and the teardown steps after the
\* failed one are still executed, so that a returned run has been through
\* checkout, clean and stash pop whatever their exit codes
C21_BestEffortTeardown ==
    /\ [][TeardownStep]_vars
    /\ [](Returning =>
            /\ Len(trace) >= 3
            /\ trace[Len(trace) - 2].op = "checkout"
            /\ trace[Len(trace) - 1].op = "clean"
            /\ trace[Len(trace)].op = "pop")
    /\ [](mainPc # "rejected")

\* a run that passed, whose git checkout failed in teardown: clean and stash
\* pop were still run and the passed outcome is returned
C21_Witness ==
    /\ Returning /\ AllPassed(result) /\ result.error = "none"
    /\ trace[Len(trace) - 2] = Event("checkout", CurAttempt, 1)
    /\ trace[Len(trace) - 1].op = "clean"
    /\ trace[Len(trace)].op = "pop"
    /\ tree["app"] = "agent"

----------------------------------------------------------------------------
(* C22: the per-run state machine of runEvalFull *)

\* Restoring: the run is in its finally block; Done: it returns its outcome
Restoring == pc \in {"stopD3k", "checkout", "clean", "pop"}
Done == Returning

\* the two ends of the attempt loop, read off the outcome once the loop is left
Succeeded == result.error = "none" /\ AllPassed(result)
Exhausted ==
    /\ result.error = "none" /\ ~AllPassed(result)
    /\ result.attempts = MAX_FULL_ATTEMPTS

\* the agent invocations of the run are numbered 1, 2, ... without a gap, and
\* there are at most MAX_FULL_ATTEMPTS of them
AttemptsInOrder ==
    LET agents == SelectSeq(trace, LAMBDA e : e.op = "agent")
    IN  /\ Len(agents) <= MAX_FULL_ATTEMPTS
        /\ \A j \in DOMAIN agents : agents[j].k = j

\* C22 as stated: every staged feedback run, all of whose external
\* invocations returned, has reached Succeeded or Exhausted when it returns
C22_Original ==
    (Returning /\ result.mode = "full" /\ HasOp("stage")
        /\ ~HasOp("testsFault")) =>
            (Succeeded \/ Exhausted)

\* C22 amended: a feedback run numbers its attempts 1, 2, 3 without a gap;
\* it leaves the attempt loop as Succeeded or Exhausted unless a fault ended
\* it (staging, monitor not ready after 30 polls, test runner not started);
\* on each of these ways it reaches Restoring, and from Restoring Done
C22_Termination ==
    /\ []AttemptsInOrder
    /\ []((result.mode = "full" /\ (Restoring \/ Done)) =>
             (Succeeded \/ Exhausted \/ result.error # "none"))
    /\ (result.mode = "full" /\ pc = "stage") ~> Restoring
    /\ Restoring ~> Done

\* a feedback run that reached Done as Exhausted after attempts 1, 2, 3
C22_Witness ==
    /\ Done /\ result.mode = "full" /\ Exhausted
    /\ \A k \in Attempts : HasOp("agent") /\ RanAt({"agent"}, k)
    /\ HasOp("pop")

----------------------------------------------------------------------------
(* C23: the JSON summary *)

\* the array in the file has one object per evaluation of the batch, in run
\* order, each built from that evaluation's outcome
SummaryCoversBatch ==
    LET json == jsonFile.content
    IN  /\ Len(json) = Len(evalsToRun)
        /\ Len(results) = Len(evalsToRun)
        /\ \A i \in DOMAIN json :
              /\ json[i].evalPath = evalsToRun[i]
              /\ json[i].mode = results[i].mode
              /\ json[i].result.attempts = results[i].attempts
              /\ json[i].result.buildSuccess = results[i].build
              /\ json[i].result.lintSuccess = results[i].lint
              /\ json[i].result.testSuccess = results[i].tests
              /\ json[i].result.success =
                    (/\ json[i].result.buildSuccess
                     /\ json[i].result.lintSuccess
                     /\ json[i].result.testSuccess)

\* C23: with --output given, once main has ended on a batch of N evaluations
\* the file is written and holds an array of exactly N objects in run order,
\* the i-th with the i-th name as evalPath, mode and attempts of its outcome,
\* and success equal to buildSuccess and lintSuccess and testSuccess
C23_JsonSummary ==
    (mainPc # "loop" /\ outputFile) => (jsonFile.written /\ SummaryCoversBatch)

----------------------------------------------------------------------------
(* C24: the exit code *)

\* C24: the process ends with exit code 0 whatever the evaluations gave: all
\* gates passed, a gate failed, the attempts were exhausted, a fault was
\* recorded, or main itself was left by a rejection; failure shows only in
\* the outcome fields
C24_ExitCode ==
    /\ exitCode \in {-1, 0}
    /\ mainPc = "loop" <=> exitCode = -1
    /\ mainPc # "loop" => exitCode = ExitCode("done", <<>>)

\* the process has ended with exit code 0 after a feedback run that recorded
\* a fault and passed no gate
C24_Witness ==
    /\ mainPc = "done" /\ exitCode = 0
    /\ Len(results) = 1 /\ results[1].mode = "full"
    /\ results[1].error # "none" /\ ~results[1].build

----------------------------------------------------------------------------
(* C25: the order inside an attempt *)

\* the rank of an operation inside its attempt (the test gate is run, could
\* not be started, or is skipped)
Rank(op) ==
    CASE op = "agent" -> 0
      [] op = "build" -> 1
      [] op = "lint" -> 2
      [] op \in {"tests", "testsFault", "testsSkipped"} -> 3

AttemptOps == {"agent", "build", "lint", "tests", "testsFault", "testsSkipped"}

\* C25: in every attempt of either mode the agent is over before any gate
\* starts, the gates that are run come in the order build, lint, tests, each
\* at most once in the attempt, and a gate run in an attempt has that
\* attempt's agent invocation before it
C25_OrderInAttempt ==
    /\ \A i, j \in DOMAIN trace :
          (/\ i < j
           /\ trace[i].op \in AttemptOps /\ trace[j].op \in AttemptOps
           /\ trace[i].k = trace[j].k) =>
              Rank(trace[i].op) < Rank(trace[j].op)
    /\ \A j \in DOMAIN trace :
          (trace[j].op \in AttemptOps /\ trace[j].op # "agent") =>
              \E i \in 1..(j - 1) :
                  trace[i].op = "agent" /\ trace[i].k = trace[j].k
    /\ \A i, j \in DOMAIN trace :
          (/\ i < j
           /\ trace[i].op \in AttemptOps /\ trace[j].op \in AttemptOps) =>
              trace[i].k <= trace[j].k

\* a feedback run whose last attempt ran the agent and then all three gates
C25_Witness ==
    /\ Returning /\ result.mode = "full"
    /\ \E i \in DOMAIN trace :
          /\ i + 3 \in DOMAIN trace
          /\ trace[i].k = MAX_FULL_ATTEMPTS
          /\ trace[i].op = "agent" /\ trace[i + 1].op = "build"
          /\ trace[i + 2].op = "lint" /\ trace[i + 3].op = "tests"

----------------------------------------------------------------------------
(* C26: stash balance *)

\* the run's stash step pushed an entry: the tree had local modifications
StashPushed == tree0 # CleanTree

\* C26: when the run returns, the stash stack is what it was before the run;
\* a run whose stash step pushed an entry has had exactly that entry (the
\* tree as it was) put back, and a run whose stash step saved nothing has
\* had no older entry applied to the working tree
C26_StashBalance ==
    Returning =>
        /\ stash = stash0
        /\ StashPushed => tree = tree0
        /\ ~StashPushed => tree = CleanTree

----------------------------------------------------------------------------
(* C27: attempts and agent invocations *)

\* the number of times the run invoked the coding agent
AgentInvocations == Len(payloads)

\* C27 as stated: every returned outcome, of either mode and also after a
\* caught fault, has attempts equal to the number of agent invocations
C27_Original == Returning => result.attempts = AgentInvocations

\* C27 amended: a feedback-mode outcome has attempts equal to the number of
\* agent invocations, 0 included when a fault ended the run before the first
\* attempt; a single-shot outcome has attempts 1, which is the number of
\* agent invocations unless a staging fault ended the run before the agent
C27_AttemptsVsInvocations ==
    /\ AgentInvocations = CountOp("agent")
    /\ Returning =>
          IF result.mode = "full"
          THEN result.attempts = AgentInvocations
          ELSE /\ result.attempts = 1
               /\ AgentInvocations = (IF HasOp("stageFault") THEN 0 ELSE 1)

\* a feedback run that the monitor's timeout ended before its first attempt:
\* no agent invocation and attempts 0
C27_Witness ==
    /\ Returning /\ result.mode = "full" /\ HasOp("d3kTimeout")
    /\ AgentInvocations = 0 /\ result.attempts = 0

----------------------------------------------------------------------------
(* C28: no stale gate results *)

\* the exit codes gate g gave in attempt k (the skipped test gate counts as
\* a test gate that passed)
CodesAt(g, k) ==
    {trace[i].code : i \in {j \in DOMAIN trace :
        /\ trace[j].k = k
        /\ \/ trace[j].op = g
           \/ (g = "tests" /\ trace[j].op = "testsSkipped")}}

\* C28: in feedback mode, once the attempt loop has ended without a fault,
\* the last attempt performed ran all three gates and the outcome's build,
\* lint and tests are what these gates gave in that attempt
C28_NoStaleResults ==
    (result.mode = "full" /\ (Restoring \/ Done) /\ result.error = "none") =>
        LET last == result.attempts
        IN  /\ last \in Attempts /\ RanAt({"agent"}, last)
            /\ ~RanAt(AttemptOps, last + 1)
            /\ CodesAt("build", last) = {IF result.build THEN 0 ELSE 1}
            /\ CodesAt("lint", last) = {IF result.lint THEN 0 ELSE 1}
            /\ CodesAt("tests", last) = {IF result.tests THEN 0 ELSE 1}

\* an exhausted feedback run whose lint passed in attempt 1, was skipped in
\* attempt 2 after a failed build, and failed in attempt 3: the outcome holds
\* the lint result of attempt 3
C28_Witness ==
    /\ Done /\ result.mode = "full" /\ result.error = "none"
    /\ HasEvent("lint", 1, 0) /\ HasEvent("tests", 1, 1)
    /\ HasEvent("build", 2, 1) /\ ~RanAt({"lint"}, 2)
    /\ HasEvent("build", 3, 0) /\ HasEvent("lint", 3, 1)
    /\ result.build /\ ~result.lint

----------------------------------------------------------------------------
(* update-docs: the old docs and the new stamp *)

DocSteps == {docTrace[i] : i \in DOMAIN docTrace}

\* the run has ended with a failure of the fetch or of the extraction
DownloadFailed ==
    /\ docPc = "exit" /\ docExit = 1
    /\ \/ docTrace = <<"prepare">>
       \/ docTrace = <<"prepare", "fetch", "write">>

\* C29: the output directory is touched only after the tarball has been
\* fetched, written and extracted successfully; when the fetch or the
\* extraction fails, the installed docs and their .last-updated stamp are what
\* they were before the run, and the process exits with code 1.
C29_OldDocsKept ==
    [][ /\ outputDir' # outputDir => {"fetch", "write", "tar"} \subseteq DocSteps
        /\ (docPc \in {"fetch", "tar"} /\ docPc' = "exit" /\ docExit' = 1)
              => outputDir' = output0 ]_vars

\* a stamped install with MaxDocs entries has survived a failed extraction
C29_Witness ==
    /\ DownloadFailed
    /\ docTrace = <<"prepare", "fetch", "write">>
    /\ remote.docsDir
    /\ output0 = [docs |-> DocsOf("old", MaxDocs), stamp |-> "old"]
    /\ outputDir = output0

\* the docs entries that belong to the stamp found in the output directory
DocsOfStamp ==
    IF outputDir.stamp = "new" THEN remote.docs ELSE output0.docs

\* C30: .last-updated is written only after every entry of the extracted docs
\* directory has been moved; after any run, an output directory that holds
\* .last-updated holds the complete set of entries of that same download; a
\* run that fails after wiping the output directory leaves no .last-updated.
C30_StampLast ==
    [][ /\ (outputDir'.stamp = "new" /\ outputDir.stamp # "new")
              => /\ "move" \in DocSteps
                 /\ entries = {}
                 /\ outputDir.docs = remote.docs
        /\ (docPc' = "exit" /\ outputDir'.stamp # "none")
              => outputDir'.docs = DocsOfStamp'
        /\ (docPc' = "exit" /\ docExit' = 1 /\ "wipe" \in DocSteps)
              => outputDir'.stamp = "none" ]_vars

====
